---- MODULE Spec2Model ----
(***************************************************************************)
(* A model of the JinaSum plugin (src/jina_sum.py): the event handler      *)
(* on_handle_context, the two time-bounded caches it maintains, and the    *)
(* two orchestrators _process_summary and _process_question.               *)
(*                                                                         *)
(* Strings are modelled as sequences of symbols, so that startswith is the *)
(* prefix relation, str.split yields the tokens of a text, and             *)
(* html.unescape rewrites symbols.  A text is a sequence of tokens.        *)
(* A Python dict is a function whose DOMAIN is the set of its keys.        *)
(* The clock time.time() is the variable now; the host handles one event   *)
(* at a time, so one handler call is one action, and the time that passes  *)
(* inside a call is an input of the action.                                *)
(*                                                                         *)
(* Spec is the plugin at work.  SpecIdentity, SpecPolicy and SpecUrl apply *)
(* the resolvers _get_user_nickname and _get_group_name, the policy        *)
(* _should_auto_summarize and the validator _check_url on their own, over  *)
(* every directory answer and every configuration of the lists.  FairSpec  *)
(* is Spec with every request that was made answered.                      *)
(***************************************************************************)
EXTENDS Integers, Sequences, FiniteSets, TLC

(* ---------------------------- bounds ---------------------------------- *)

\* the clock runs from 0 to MaxTime
MaxTime == 2
\* the number of calls (events handled, questions asked) a behaviour makes
MaxCalls == 3

(* ------------------------ program constants --------------------------- *)

\* retry_count < 3: the number of retries of both orchestrators
MaxRetry == 3

(* --------------------------- dictionaries ----------------------------- *)

EmptyDict == [k \in {} |-> TRUE]

\* d[k] = v
Put(d, k, v) == [x \in (DOMAIN d) \cup {k} |-> IF x = k THEN v ELSE d[x]]

\* for k in keys: del d[k]
Del(d, keys) == [x \in (DOMAIN d) \ keys |-> d[x]]

(* ----------------------------- strings -------------------------------- *)

\* s.startswith(p)
StartsWith(s, p) == Len(s) >= Len(p) /\ SubSeq(s, 1, Len(p)) = p

\* s[:n]
Take(s, n) == SubSeq(s, 1, IF Len(s) < n THEN Len(s) ELSE n)

\* html.unescape on one symbol: the entity &amp; becomes &
UnescapeSym(c) == IF c = "/a&amp;b" THEN "/a&b" ELSE c

\* html.unescape(content)
html_unescape(s) == [i \in 1..Len(s) |-> UnescapeSym(s[i])]

\* the whitespace symbol
IsSpace(c) == c = " "

\* s.strip(): s without its leading and trailing whitespace
str_strip(s) ==
    LET idx == {i \in 1..Len(s) : ~IsSpace(s[i])}
    IN IF idx = {} THEN <<>>
       ELSE SubSeq(s, CHOOSE i \in idx : \A j \in idx : i <= j,
                      CHOOSE i \in idx : \A j \in idx : i >= j)

\* the symbols urlparse reads as "<scheme>:" and as "//<netloc>"
SchemeSyms == {"https:"}
HostSyms == {"//good.example", "//support.weixin.qq.com"}

\* s.lstrip(): urlparse drops the leading whitespace of what it parses
str_lstrip(s) ==
    LET idx == {i \in 1..Len(s) : ~IsSpace(s[i])}
    IN IF idx = {} THEN <<>>
       ELSE SubSeq(s, CHOOSE i \in idx : \A j \in idx : i <= j, Len(s))

\* urlparse(u).scheme
UrlScheme(u) ==
    LET v == str_lstrip(u)
    IN IF Len(v) >= 1 /\ v[1] \in SchemeSyms THEN v[1] ELSE ""

\* urlparse(u).netloc
UrlNetloc(u) ==
    LET v == str_lstrip(u)
    IN IF UrlScheme(v) # "" /\ Len(v) >= 2 /\ v[2] \in HostSyms
       THEN v[2] ELSE ""

(* ------------------------ the values of the model --------------------- *)

UGood == <<"https:", "//good.example", "/page">>
UAmp == <<"https:", "//good.example", "/a&amp;b">>
UBlack == <<"https:", "//support.weixin.qq.com", "/v">>
UNoScheme == <<"good.example", "/page">>

\* the payloads of SHARING events
Urls == {UGood, UAmp, UBlack, UNoScheme}

\* the command word "zongjie" (summarize), a group prefix, the question
\* trigger "wen" (ask) and a word that is none of them
Kw == <<"zongjie">>
KwLong == <<"zongjie", "yixia">>
BotPrefix == <<"@bot">>
QaTok == <<"wen">>
Word == <<"hello">>

\* the texts of TEXT events
Texts ==
    {<<Kw>>, <<KwLong, UGood>>, <<BotPrefix, Kw, UNoScheme>>, <<QaTok, Word>>}

\* the conversations: a group and a direct chat whose display names
\* collide, and a second direct chat
Convs ==
    {[from_user_id |-> "g1", is_group |-> TRUE],
     [from_user_id |-> "u1", is_group |-> FALSE],
     [from_user_id |-> "u2", is_group |-> FALSE]}

\* the name the directory service holds for a raw id
DirName(id) == IF id = "u2" THEN "B" ELSE "A"

\* Python's None, as a dictionary key
None == "None"

(* --------------------------- configuration ---------------------------- *)

\* pending_messages_timeout (default 60) and content_cache_timeout (default
\* 300), scaled to the clock of the model
pending_messages_timeout == 1
content_cache_timeout == 1

\* max_words (default 8000), scaled to the bodies of the model
max_words == 2

\* group_chat_prefix of the host configuration
group_chat_prefix == <<BotPrefix>>

\* qa_trigger
qa_trigger == QaTok

\* the bodies the extraction service returns: one within max_words, one over
ShortBody == <<"w">>
LongBody == [i \in 1..(max_words + 1) |-> "w"]

\* the default configuration (lines 36-52), one blacklisted prefix kept
DefaultConfig ==
    [black_url_list |-> <<<<"https:", "//support.weixin.qq.com">>>>,
     white_url_list |-> <<>>,
     auto_sum |-> TRUE,
     black_group_list |-> {}, white_group_list |-> {},
     black_user_list |-> {}, white_user_list |-> {}]

\* the configuration of the model: auto-summarize everywhere but in the
\* groups and the direct chats named "A"
Configs ==
    {[DefaultConfig EXCEPT !.black_group_list = {"A"},
                           !.black_user_list = {"A"}]}

(* ------------------------------- state -------------------------------- *)

VARIABLES
    now,                 \* time.time()
    config,              \* the lists and auto_sum of self.config
    pending_messages,    \* self.pending_messages: chat_id -> {content, timestamp}
    content_cache,       \* self.content_cache: chat_id -> {url, content, timestamp}
    user_nickname_cache, \* self.user_nickname_cache: user_id -> nickname
    group_name_cache,    \* self.group_name_cache: group_id -> group name
    calls,               \* the number of calls made so far
    shares,              \* chat_id -> shares left unsummarized since its last
                         \* trigger (none when absent, 2 for two or more)
    drains,              \* chat_id -> pending shares drained since its last
                         \* stored share (none when absent, 2 for two or more)
    pc,                  \* where the running call stands: "idle" when none runs
    ev                   \* the running or last call: inputs, sends, calls, reply

vars ==
    <<now, config, pending_messages, content_cache, user_nickname_cache,
      group_name_cache, calls, shares, drains, pc, ev>>

(* ------------------------ identity resolution ------------------------- *)

\* what the directory call does: it answers with a name, raises, answers
\* with a status other than 200, with ret other than 200, with empty data,
\* with an empty nickName, or with no nickName at all
ResolveOutcomes ==
    {"ok", "raise", "non200", "ret_not_200", "empty_data", "empty_name",
     "missing_name"}

\* _get_user_nickname: the value returned and the cache it leaves
_get_user_nickname(cache, user_id, o) ==
    IF user_id \in DOMAIN cache
    THEN [ret |-> cache[user_id], cache |-> cache]
    ELSE IF o \in {"ok", "empty_name", "missing_name"}
         THEN LET nickname == CASE o = "ok" -> DirName(user_id)
                                [] o = "empty_name" -> ""
                                [] o = "missing_name" -> user_id
              IN [ret |-> nickname, cache |-> Put(cache, user_id, nickname)]
         ELSE [ret |-> user_id, cache |-> cache]

\* _get_group_name: the value returned and the cache it leaves; a status
\* other than 200 falls off the end of the function, which returns None
_get_group_name(cache, group_id, o) ==
    IF group_id \in DOMAIN cache
    THEN [ret |-> cache[group_id], cache |-> cache]
    ELSE CASE o = "ok" ->
                [ret |-> DirName(group_id),
                 cache |-> Put(cache, group_id, DirName(group_id))]
           [] o = "non200" -> [ret |-> None, cache |-> cache]
           [] OTHER -> [ret |-> group_id, cache |-> cache]

(* ----------------------------- policies ------------------------------- *)

\* _should_auto_summarize with a non-empty whitelist shutting out every
\* identity that is not on it
ShouldAutoSummarizeClosedList(chat_id, is_group) ==
    IF is_group
    THEN IF chat_id \in config.black_group_list THEN FALSE
         ELSE IF config.white_group_list # {}
         THEN chat_id \in config.white_group_list
         ELSE config.auto_sum
    ELSE IF chat_id \in config.black_user_list THEN FALSE
         ELSE IF config.white_user_list # {}
         THEN chat_id \in config.white_user_list
         ELSE config.auto_sum

\* _should_auto_summarize(chat_id, is_group)
_should_auto_summarize(chat_id, is_group) ==
    IF is_group
    THEN IF chat_id \in config.black_group_list THEN FALSE
         ELSE IF config.white_group_list # {}
                  /\ chat_id \in config.white_group_list THEN TRUE
         ELSE config.auto_sum
    ELSE IF chat_id \in config.black_user_list THEN FALSE
         ELSE IF config.white_user_list # {}
                  /\ chat_id \in config.white_user_list THEN TRUE
         ELSE config.auto_sum

\* _check_url testing target_url as it came, whitespace included
CheckUrlUnstripped(target_url) ==
    IF UrlScheme(target_url) = "" \/ UrlNetloc(target_url) = "" THEN FALSE
    ELSE IF \E i \in 1..Len(config.black_url_list) :
                StartsWith(target_url, config.black_url_list[i]) THEN FALSE
    ELSE IF Len(config.white_url_list) > 0
              /\ ~\E i \in 1..Len(config.white_url_list) :
                     StartsWith(target_url, config.white_url_list[i]) THEN FALSE
    ELSE TRUE

\* _check_url(target_url): every test is made on target_url.strip()
_check_url(target_url) ==
    LET stripped_url == str_strip(target_url)
    IN IF UrlScheme(stripped_url) = "" \/ UrlNetloc(stripped_url) = ""
       THEN FALSE
       ELSE IF \E i \in 1..Len(config.black_url_list) :
                   StartsWith(stripped_url, config.black_url_list[i])
       THEN FALSE
       ELSE IF Len(config.white_url_list) > 0
                 /\ ~\E i \in 1..Len(config.white_url_list) :
                        StartsWith(stripped_url, config.white_url_list[i])
       THEN FALSE
       ELSE TRUE

(* ------------------------------ caches -------------------------------- *)

\* CleanPending with an entry of exactly pending_messages_timeout removed
CleanPendingEarly(pm, current_time) ==
    Del(pm, {k \in DOMAIN pm :
                current_time - pm[k].timestamp >= pending_messages_timeout})

\* _clean_expired_cache, the pending messages
CleanPending(pm, current_time) ==
    Del(pm, {k \in DOMAIN pm :
                current_time - pm[k].timestamp > pending_messages_timeout})

\* CleanContent leaving the content cache to the freshness test of the
\* question
CleanContentKeeps(cc, current_time) == cc

\* _clean_expired_cache, the content cache
CleanContent(cc, current_time) ==
    Del(cc, {k \in DOMAIN cc :
                current_time - cc[k].timestamp > content_cache_timeout})

(* ----------------------- the record of a call ------------------------- *)

NoReply == [type |-> "NONE", text |-> ""]

\* Reply(ReplyType.<type>, <text>); the texts are named, not spelled out
Reply(type, text) == [type |-> type, text |-> text]

\* no call has run yet.  steps is the log of the call: the progress replies
\* sent, the remote requests made, how each ended, and the final reply.
\* pre_* are the caches when the call started, mid_* the caches after
\* _clean_expired_cache
EvNone ==
    [op |-> "none", ctype |-> "", from_user_id |-> "", is_group |-> FALSE,
     chat_id |-> "", text |-> <<>>, content |-> <<>>,
     should_auto_sum |-> FALSE, current_time |-> 0, route |-> "",
     skip_notice |-> FALSE, retry_count |-> 0, steps |-> <<>>,
     response_text |-> <<>>, target_url_content |-> <<>>, reply |-> NoReply,
     pre_pending |-> EmptyDict, pre_cache |-> EmptyDict,
     mid_pending |-> EmptyDict, mid_cache |-> EmptyDict]

\* how often a step occurs in the log of a call
Count(steps, x) == Cardinality({i \in 1..Len(steps) : steps[i] = x})

(* --------------------------- _process_summary ------------------------- *)

\* the readable text of a page
PageText(target_url) == IF target_url = UGood THEN ShortBody ELSE LongBody

\* what requests.get on the extraction service does: a transport error, a
\* status raise_for_status rejects, an empty body, or the text of the page
ExtractResponses(target_url) ==
    {[error |-> "transport", text |-> <<>>],
     [error |-> "status", text |-> ShortBody],
     [error |-> "", text |-> <<>>],
     [error |-> "", text |-> PageText(target_url)]}

\* lines 353-357: the request raises, raise_for_status raises, or the body
\* is empty
ExtractFails(resp) == resp.error # "" \/ resp.text = <<>>

\* what requests.post on the chat-completion service does
CompletionResponses == {"ok", "transport_error", "http_error", "malformed_json"}

\* SummaryAttempt with the notice left to skip_notice alone, retries included
SummaryAttemptNoticeEachTry(e) ==
    [pc |-> "extract",
     ev |-> [e EXCEPT !.steps =
                 (IF ~e.skip_notice
                  THEN Append(@, "send_notice") ELSE @) \o <<"extract">>]]

\* lines 338-353: the progress notice of a first attempt that does not skip
\* it, then the extraction request
SummaryAttempt(e) ==
    [pc |-> "extract",
     ev |-> [e EXCEPT !.steps =
                 (IF e.retry_count = 0 /\ ~e.skip_notice
                  THEN Append(@, "send_notice") ELSE @) \o <<"extract">>]]

\* SummaryOuterExcept with one retry less
SummaryOuterExceptShort(e) ==
    IF e.retry_count < MaxRetry - 1
    THEN SummaryAttempt([e EXCEPT !.retry_count = @ + 1,
                                  !.skip_notice = FALSE])
    ELSE [pc |-> "idle",
          ev |-> [e EXCEPT !.reply = Reply("ERROR", "fetch_error"),
                           !.steps = Append(@, "reply")]]

\* lines 396-403: the outer except retries with retry_count + 1 (and the
\* default skip_notice) or gives up with an error reply
SummaryOuterExcept(e) ==
    IF e.retry_count < MaxRetry
    THEN SummaryAttempt([e EXCEPT !.retry_count = @ + 1,
                                  !.skip_notice = FALSE])
    ELSE [pc |-> "idle",
          ev |-> [e EXCEPT !.reply = Reply("ERROR", "fetch_error"),
                           !.steps = Append(@, "reply")]]

\* SummaryInnerExcept raising the failure again, as the except clause of
\* the extraction does (line 360)
SummaryInnerExceptRaises(e) == SummaryOuterExcept(e)

\* SummaryInnerExcept logging the failure and setting no reply
SummaryInnerExceptSilent(e) == [pc |-> "idle", ev |-> e]

\* lines 390-394: the inner except turns a failed completion into an error
\* reply and raises nothing
SummaryInnerExcept(e) ==
    [pc |-> "idle",
     ev |-> [e EXCEPT !.reply = Reply("ERROR", "summary_error"),
                      !.steps = Append(@, "reply")]]

\* lines 363-375: the body is cut to max_words and the completion request
\* is made
SummaryCompletionRequest(e, text) ==
    [pc |-> "completion",
     ev |-> [e EXCEPT !.response_text = text,
                      !.target_url_content = Take(text, max_words),
                      !.steps = Append(@, "completion")]]

\* SummaryCacheEntry keeping the content as it came, entities included
SummaryCacheEntryRaw(e, t) ==
    [url |-> e.content, content |-> e.target_url_content, timestamp |-> t]

\* lines 383-387: the entry written to content_cache
SummaryCacheEntry(e, t) ==
    [url |-> html_unescape(e.content), content |-> e.target_url_content,
     timestamp |-> t]

(* --------------------------- _process_question ------------------------ *)

\* IsFresh with an entry of exactly content_cache_timeout taken as stale
IsFreshStrict(cc, chat_id, t) ==
    /\ chat_id \in DOMAIN cc
    /\ t - cc[chat_id].timestamp < content_cache_timeout

\* lines 412-415: the cache entry exists and is within content_cache_timeout
IsFresh(cc, chat_id, t) ==
    /\ chat_id \in DOMAIN cc
    /\ t - cc[chat_id].timestamp <= content_cache_timeout

\* QuestionAttempt sending the progress reply before it looks at the cache
QuestionAttemptNotifiesFirst(e) ==
    LET e1 == [e EXCEPT !.steps = IF e.retry_count = 0
                                  THEN Append(@, "send_thinking") ELSE @]
    IN IF IsFresh(content_cache, e.chat_id, now)
       THEN [pc |-> "qa_completion",
             ev |-> [e1 EXCEPT !.steps = Append(@, "completion")]]
       ELSE [pc |-> "idle",
             ev |-> [e1 EXCEPT !.reply = Reply("TEXT", "expired"),
                               !.steps = Append(@, "reply")]]

\* lines 411-446: one attempt up to the completion request, or the reply
\* that the summary expired
QuestionAttempt(e) ==
    IF IsFresh(content_cache, e.chat_id, now)
    THEN [pc |-> "qa_completion",
          ev |-> [e EXCEPT !.steps =
                      (IF e.retry_count = 0
                       THEN Append(@, "send_thinking") ELSE @)
                          \o <<"completion">>]]
    ELSE [pc |-> "idle",
          ev |-> [e EXCEPT !.reply = Reply("TEXT", "expired"),
                           !.steps = Append(@, "reply")]]

\* QuestionExcept with one retry less
QuestionExceptShort(e) ==
    IF e.retry_count < MaxRetry - 1
    THEN QuestionAttempt([e EXCEPT !.retry_count = @ + 1])
    ELSE [pc |-> "idle",
          ev |-> [e EXCEPT !.reply = Reply("ERROR", "question_error"),
                           !.steps = Append(@, "reply")]]

\* lines 454-460
QuestionExcept(e) ==
    IF e.retry_count < MaxRetry
    THEN QuestionAttempt([e EXCEPT !.retry_count = @ + 1])
    ELSE [pc |-> "idle",
          ev |-> [e EXCEPT !.reply = Reply("ERROR", "question_error"),
                           !.steps = Append(@, "reply")]]

(* --------------------------- the trigger parser ----------------------- *)

\* lines 266-271: the first group prefix that matches, followed by
\* whitespace, is removed
StripGroupPrefix(content) ==
    IF \E i \in 1..Len(group_chat_prefix) :
           Len(content) >= 2 /\ content[1] = group_chat_prefix[i]
    THEN Tail(content) ELSE content

\* lines 264-282: the text the trigger is looked for in
EffectiveText(content, is_group) ==
    IF is_group THEN StripGroupPrefix(content) ELSE content

\* content.startswith("zongjie")
IsTrigger(content) == Len(content) >= 1 /\ StartsWith(content[1], Kw)

\* lines 288-289: clist[1] if len(clist) > 1 else None (<<>> for None)
InlineUrl(content) == IF Len(content) > 1 THEN content[2] ELSE <<>>

(* --------------------------- on_handle_context ------------------------ *)

\* DispatchSharing looking at the policy before it looks at the URL
DispatchSharingAutoFirst(e, pm, content) ==
    IF e.should_auto_sum
    THEN [pm |-> pm] @@ SummaryAttempt([e EXCEPT !.route = "auto"])
    ELSE IF ~_check_url(content)
    THEN [pm |-> pm, pc |-> "idle",
          ev |-> [e EXCEPT !.route = "invalid_url",
                           !.reply = Reply("TEXT", "invalid_url"),
                           !.steps = Append(@, "reply")]]
    ELSE IF e.is_group
    THEN [pm |-> Put(pm, e.chat_id, [content |-> content, timestamp |-> now]),
          pc |-> "idle", ev |-> [e EXCEPT !.route = "stored"]]
    ELSE [pm |-> pm, pc |-> "idle", ev |-> [e EXCEPT !.route = "dropped"]]

\* lines 234-253: a share with an allowed URL is summarized at once where
\* auto-summarize applies; otherwise a group keeps it as pending and a
\* direct chat drops it.  The result: pending_messages, pc and ev.
DispatchSharing(e, pm, content) ==
    IF ~_check_url(content)
    THEN [pm |-> pm, pc |-> "idle",
          ev |-> [e EXCEPT !.route = "invalid_url",
                           !.reply = Reply("TEXT", "invalid_url"),
                           !.steps = Append(@, "reply")]]
    ELSE IF e.should_auto_sum
    THEN [pm |-> pm] @@ SummaryAttempt([e EXCEPT !.route = "auto"])
    ELSE IF e.is_group
    THEN [pm |-> Put(pm, e.chat_id, [content |-> content, timestamp |-> now]),
          pc |-> "idle", ev |-> [e EXCEPT !.route = "stored"]]
    ELSE [pm |-> pm, pc |-> "idle", ev |-> [e EXCEPT !.route = "dropped"]]

\* DrainPending without the del of line 298
DrainPendingKeeps(e, pm) ==
    [pm |-> pm]
        @@ SummaryAttempt([e EXCEPT !.route = "drain",
                                    !.content = pm[e.chat_id].content,
                                    !.skip_notice = TRUE])

\* lines 295-301: the pending share of chat_id is taken out of the cache
\* and summarized without a notice
DrainPending(e, pm) ==
    [pm |-> Del(pm, {e.chat_id})]
        @@ SummaryAttempt([e EXCEPT !.route = "drain",
                                    !.content = pm[e.chat_id].content,
                                    !.skip_notice = TRUE])

\* DispatchText answering a trigger that finds nothing to summarize
DispatchTextNoContentReplies(e, pm, text) ==
    LET content == EffectiveText(text, e.is_group)
        url == InlineUrl(content)
    IN IF ~IsTrigger(content)
       THEN [pm |-> pm, pc |-> "idle", ev |-> [e EXCEPT !.route = "no_trigger"]]
       ELSE IF url # <<>> /\ _check_url(url)
       THEN [pm |-> pm]
                @@ SummaryAttempt([e EXCEPT !.route = "inline", !.content = url])
       ELSE IF e.chat_id \in DOMAIN pm
       THEN DrainPending(e, pm)
       ELSE [pm |-> pm, pc |-> "idle",
             ev |-> [e EXCEPT !.route = "no_content",
                              !.reply = Reply("TEXT", "no_content"),
                              !.steps = Append(@, "reply")]]

\* DispatchText draining the pending share for a group only
DispatchTextGroupOnly(e, pm, text) ==
    LET content == EffectiveText(text, e.is_group)
        url == InlineUrl(content)
    IN IF ~IsTrigger(content)
       THEN [pm |-> pm, pc |-> "idle", ev |-> [e EXCEPT !.route = "no_trigger"]]
       ELSE IF url # <<>> /\ _check_url(url)
       THEN [pm |-> pm]
                @@ SummaryAttempt([e EXCEPT !.route = "inline", !.content = url])
       ELSE IF e.chat_id \in DOMAIN pm /\ e.is_group
       THEN DrainPending(e, pm)
       ELSE [pm |-> pm, pc |-> "idle", ev |-> [e EXCEPT !.route = "no_content"]]

\* DispatchText taking the pending share also when it summarizes an inline URL
DispatchTextInlineTakes(e, pm, text) ==
    LET content == EffectiveText(text, e.is_group)
        url == InlineUrl(content)
    IN IF ~IsTrigger(content)
       THEN [pm |-> pm, pc |-> "idle", ev |-> [e EXCEPT !.route = "no_trigger"]]
       ELSE IF url # <<>> /\ _check_url(url)
       THEN [pm |-> Del(pm, {e.chat_id})]
                @@ SummaryAttempt([e EXCEPT !.route = "inline", !.content = url])
       ELSE IF e.chat_id \in DOMAIN pm
       THEN DrainPending(e, pm)
       ELSE [pm |-> pm, pc |-> "idle", ev |-> [e EXCEPT !.route = "no_content"]]

\* DispatchText refusing a second token that fails the validator, as the
\* SHARING branch refuses its content
DispatchTextInvalidUrlReplies(e, pm, text) ==
    LET content == EffectiveText(text, e.is_group)
        url == InlineUrl(content)
    IN IF ~IsTrigger(content)
       THEN [pm |-> pm, pc |-> "idle", ev |-> [e EXCEPT !.route = "no_trigger"]]
       ELSE IF url # <<>> /\ _check_url(url)
       THEN [pm |-> pm]
                @@ SummaryAttempt([e EXCEPT !.route = "inline", !.content = url])
       ELSE IF url # <<>>
       THEN [pm |-> pm, pc |-> "idle",
             ev |-> [e EXCEPT !.route = "invalid_url",
                              !.reply = Reply("TEXT", "invalid_url"),
                              !.steps = Append(@, "reply")]]
       ELSE IF e.chat_id \in DOMAIN pm
       THEN DrainPending(e, pm)
       ELSE [pm |-> pm, pc |-> "idle", ev |-> [e EXCEPT !.route = "no_content"]]

\* lines 256-304: a text that is no trigger is left alone; a trigger with an
\* allowed inline URL summarizes it; any other trigger drains the pending
\* share of the conversation, if there is one
DispatchText(e, pm, text) ==
    LET content == EffectiveText(text, e.is_group)
        url == InlineUrl(content)
    IN IF ~IsTrigger(content)
       THEN [pm |-> pm, pc |-> "idle", ev |-> [e EXCEPT !.route = "no_trigger"]]
       ELSE IF url # <<>> /\ _check_url(url)
       THEN [pm |-> pm]
                @@ SummaryAttempt([e EXCEPT !.route = "inline", !.content = url])
       ELSE IF e.chat_id \in DOMAIN pm
       THEN DrainPending(e, pm)
       ELSE [pm |-> pm, pc |-> "idle", ev |-> [e EXCEPT !.route = "no_content"]]

\* the history kept for the properties: a share that is stored or dropped
\* counts until the next trigger of its conversation identity
SharesAfter(sh, e) ==
    IF e.route \in {"stored", "dropped"}
    THEN Put(sh, e.chat_id,
             IF e.chat_id \in DOMAIN sh /\ sh[e.chat_id] >= 1 THEN 2 ELSE 1)
    ELSE IF e.route \in {"inline", "drain", "no_content"}
    THEN Del(sh, {e.chat_id})
    ELSE sh

\* a drain counts until the next share stored for its conversation identity
DrainsAfter(dr, e) ==
    IF e.route = "stored" THEN Del(dr, {e.chat_id})
    ELSE IF e.route = "drain"
    THEN Put(dr, e.chat_id,
             IF e.chat_id \in DOMAIN dr /\ dr[e.chat_id] >= 1 THEN 2 ELSE 1)
    ELSE dr

\* the directory answers the events of the model meet
DirectoryAnswers == {"ok"}

\* the directory answers asked for: none when the name is already cached
ResolveInputs(conv) ==
    IF conv.from_user_id \in
           DOMAIN (IF conv.is_group THEN group_name_cache
                   ELSE user_nickname_cache)
    THEN {"cached"} ELSE DirectoryAnswers

\* lines 204-205: an event that is neither TEXT nor SHARING
IgnoreContext ==
    /\ pc = "idle"
    /\ calls < MaxCalls
    /\ calls' = calls + 1
    /\ ev' = [EvNone EXCEPT !.op = "on_handle_context", !.ctype = "IMAGE",
                            !.route = "ignored",
                            !.pre_pending = pending_messages,
                            !.pre_cache = content_cache,
                            !.mid_pending = pending_messages,
                            !.mid_cache = content_cache]
    /\ UNCHANGED <<now, config, pending_messages, content_cache,
                   user_nickname_cache, group_name_cache, shares, drains, pc>>

\* lines 207-304: a TEXT or SHARING event up to its reply or, when it
\* summarizes, up to the first extraction request
OnHandleContext ==
    /\ pc = "idle"
    /\ calls < MaxCalls
    /\ calls' = calls + 1
    /\ \E conv \in Convs, ctype \in {"TEXT", "SHARING"} :
       \E o \in ResolveInputs(conv) :
       \E payload \in (IF ctype = "TEXT" THEN Texts ELSE Urls) :
          LET r == IF conv.is_group
                   THEN _get_group_name(group_name_cache, conv.from_user_id, o)
                   ELSE _get_user_nickname(user_nickname_cache,
                                           conv.from_user_id, o)
              pm == CleanPending(pending_messages, now)
              cc == CleanContent(content_cache, now)
              e == [EvNone EXCEPT
                       !.op = "on_handle_context", !.ctype = ctype,
                       !.from_user_id = conv.from_user_id,
                       !.is_group = conv.is_group,
                       !.chat_id = r.ret,
                       !.text = IF ctype = "TEXT" THEN payload ELSE <<>>,
                       !.content = IF ctype = "TEXT" THEN <<>> ELSE payload,
                       !.should_auto_sum =
                           _should_auto_summarize(r.ret, conv.is_group),
                       !.current_time = now,
                       !.pre_pending = pending_messages,
                       !.pre_cache = content_cache,
                       !.mid_pending = pm, !.mid_cache = cc]
              d == IF ctype = "SHARING" THEN DispatchSharing(e, pm, payload)
                   ELSE DispatchText(e, pm, payload)
          IN /\ group_name_cache' =
                    (IF conv.is_group THEN r.cache ELSE group_name_cache)
             /\ user_nickname_cache' =
                    (IF conv.is_group THEN user_nickname_cache ELSE r.cache)
             /\ content_cache' = cc
             /\ pending_messages' = d.pm
             /\ pc' = d.pc
             /\ ev' = d.ev
             /\ shares' = SharesAfter(shares, d.ev)
             /\ drains' = DrainsAfter(drains, d.ev)
    /\ UNCHANGED <<now, config>>

\* lines 353-360 and 396-403: the extraction service answers
ExtractResponse ==
    /\ pc = "extract"
    /\ \E resp \in ExtractResponses(html_unescape(ev.content)) :
          LET e == [ev EXCEPT !.steps =
                        Append(@, IF ExtractFails(resp) THEN "extract_failed"
                                  ELSE "extract_ok")]
              d == IF ExtractFails(resp) THEN SummaryOuterExcept(e)
                   ELSE SummaryCompletionRequest(e, resp.text)
          IN pc' = d.pc /\ ev' = d.ev
    /\ UNCHANGED <<now, config, pending_messages, content_cache,
                   user_nickname_cache, group_name_cache, calls, shares, drains>>

\* lines 376-394: the chat-completion service answers
CompletionResponse ==
    /\ pc = "completion"
    /\ \E resp \in CompletionResponses :
          IF resp = "ok"
          THEN /\ content_cache' =
                      Put(content_cache, ev.chat_id, SummaryCacheEntry(ev, now))
               /\ ev' = [ev EXCEPT !.reply = Reply("TEXT", "summary"),
                                   !.steps = @ \o <<"completion_ok", "reply">>]
               /\ pc' = "idle"
          ELSE LET d == SummaryInnerExcept(
                            [ev EXCEPT !.steps = Append(@, "completion_failed")])
               IN pc' = d.pc /\ ev' = d.ev /\ UNCHANGED content_cache
    /\ UNCHANGED <<now, config, pending_messages, user_nickname_cache,
                   group_name_cache, calls, shares, drains>>

\* the conversation identities a question is asked for
Identities == {"A", "B"}

\* lines 405-446: _process_question is called, up to its reply or to its
\* first completion request
ProcessQuestion ==
    /\ pc = "idle"
    /\ calls < MaxCalls
    /\ calls' = calls + 1
    /\ \E chat_id \in Identities :
          LET d == QuestionAttempt(
                       [EvNone EXCEPT !.op = "_process_question",
                                      !.chat_id = chat_id,
                                      !.text = <<qa_trigger, Word>>,
                                      !.current_time = now,
                                      !.route = "question",
                                      !.pre_pending = pending_messages,
                                      !.pre_cache = content_cache,
                                      !.mid_pending = pending_messages,
                                      !.mid_cache = content_cache])
          IN pc' = d.pc /\ ev' = d.ev
    /\ UNCHANGED <<now, config, pending_messages, content_cache,
                   user_nickname_cache, group_name_cache, shares, drains>>

\* lines 447-460: the chat-completion service answers a question
QuestionResponse ==
    /\ pc = "qa_completion"
    /\ \E resp \in CompletionResponses :
          LET d == IF resp = "ok"
                   THEN [pc |-> "idle",
                         ev |-> [ev EXCEPT !.reply = Reply("TEXT", "answer"),
                                           !.steps =
                                               @ \o <<"completion_ok", "reply">>]]
                   ELSE QuestionExcept(
                            [ev EXCEPT !.steps = Append(@, "completion_failed")])
          IN pc' = d.pc /\ ev' = d.ev
    /\ UNCHANGED <<now, config, pending_messages, content_cache,
                   user_nickname_cache, group_name_cache, calls, shares, drains>>

\* time passes between two calls and while a question awaits its answer
Tick ==
    /\ pc \in {"idle", "qa_completion"}
    /\ now < MaxTime
    /\ now' = now + 1
    /\ UNCHANGED <<config, pending_messages, content_cache,
                   user_nickname_cache, group_name_cache, calls, shares, drains,
                   pc, ev>>

\* lines 54-111: __init__ leaves the caches empty
Init ==
    /\ now = 0
    /\ config \in Configs
    /\ pending_messages = EmptyDict
    /\ content_cache = EmptyDict
    /\ user_nickname_cache = EmptyDict
    /\ group_name_cache = EmptyDict
    /\ calls = 0
    /\ shares = EmptyDict
    /\ drains = EmptyDict
    /\ pc = "idle"
    /\ ev = EvNone

Next ==
    \/ IgnoreContext
    \/ OnHandleContext
    \/ ExtractResponse
    \/ CompletionResponse
    \/ ProcessQuestion
    \/ QuestionResponse
    \/ Tick

Spec == Init /\ [][Next]_vars

(* ------------------------------ properties ---------------------------- *)

\* the running or last call is on_handle_context
HandlerCall == ev.op = "on_handle_context"

\* the running or last call is on_handle_context and reached _process_summary
Summarizes == HandlerCall /\ ev.route \in {"auto", "inline", "drain"}

\* the running or last call is _process_question
QuestionCall == ev.op = "_process_question"

\* the call has returned
Done == pc = "idle"

ExtractCalls == Count(ev.steps, "extract")
CompletionCalls == Count(ev.steps, "completion")

\* the last n steps of the call
LastSteps(n) == SubSeq(ev.steps, Len(ev.steps) - n + 1, Len(ev.steps))

\* C1, as claimed: a summarize call whose extractions all succeed and whose
\* completions all fail runs the extract-then-summarize sequence 4 times
\* before it returns the error-typed reply.
C1_CompletionFailureRetried ==
    (/\ Summarizes /\ Done
     /\ Count(ev.steps, "extract_failed") = 0
     /\ Count(ev.steps, "completion_failed") >= 1
     /\ Count(ev.steps, "completion_ok") = 0)
        => /\ ExtractCalls = MaxRetry + 1
           /\ CompletionCalls = MaxRetry + 1
           /\ ev.reply.type = "ERROR"

\* C1, amended: a failed completion after a successful extraction is not
\* retried.  The call returns at once with the error-typed reply of the
\* inner handler, having made one completion call and no extraction call
\* after it; with no failed extraction the sequence has run once.
C1_CompletionFailureNotRetried ==
    (Summarizes /\ Count(ev.steps, "completion_failed") >= 1)
        => /\ Done
           /\ CompletionCalls = 1
           /\ ExtractCalls = Count(ev.steps, "extract_failed") + 1
           /\ LastSteps(3) = <<"completion", "completion_failed", "reply">>
           /\ ev.reply = Reply("ERROR", "summary_error")

\* C1, witness: extraction succeeded at once, the completion failed, and the
\* call is over after one run of the sequence
C1_Witness ==
    /\ Summarizes /\ Done
    /\ ev.steps = <<"send_notice", "extract", "extract_ok", "completion",
                    "completion_failed", "reply">>

\* C2: a summarize call whose extractions all fail makes its extraction
\* calls one after the other, never more than 4 and no completion call; it
\* has no reply while it runs and ends after exactly 4 extraction calls
\* with the error-typed reply.
C2_ExtractionRetryBound ==
    (Summarizes /\ Count(ev.steps, "extract_ok") = 0)
        => /\ ExtractCalls <= MaxRetry + 1
           /\ CompletionCalls = 0
           /\ \A i \in 1..(Len(ev.steps) - 1) :
                  ev.steps[i] = "extract" => ev.steps[i + 1] = "extract_failed"
           /\ Done => /\ ExtractCalls = 4
                      /\ Count(ev.steps, "extract_failed") = 4
                      /\ ev.reply = Reply("ERROR", "fetch_error")
           /\ ~Done => /\ pc = "extract"
                       /\ ev.reply = NoReply
                       /\ ExtractCalls = Count(ev.steps, "extract_failed") + 1

\* C2, witness: a summarize call that ended after four failed extractions
C2_Witness ==
    /\ Summarizes /\ Done
    /\ Count(ev.steps, "extract_failed") = 4
    /\ ev.reply.type = "ERROR"

\* C3, as claimed: a TEXT event that starts with the question trigger, in a
\* conversation whose summary cache entry is fresh, sends the "thinking"
\* reply, then makes a completion call, and sets the answer as its reply.
C3_QuestionRouted ==
    (/\ HandlerCall /\ ev.ctype = "TEXT"
     /\ Len(ev.text) >= 1 /\ StartsWith(ev.text[1], qa_trigger)
     /\ ev.chat_id \in DOMAIN ev.mid_cache
     /\ ev.current_time - ev.mid_cache[ev.chat_id].timestamp
            <= content_cache_timeout)
        => /\ Len(ev.steps) >= 2
           /\ ev.steps[1] = "send_thinking"
           /\ ev.steps[2] = "completion"
           /\ (Done /\ Count(ev.steps, "completion_ok") >= 1)
                  => ev.reply = Reply("TEXT", "answer")

\* C4, as claimed: a SHARING event with an allowed URL, in a conversation
\* (group or direct) where auto-summarize does not apply, leaves the
\* pending entry {content, timestamp} of that share under the identity.
C4_IneligibleShareStored ==
    (/\ HandlerCall /\ ev.ctype = "SHARING"
     /\ _check_url(ev.content)
     /\ ~ev.should_auto_sum)
        => /\ ev.chat_id \in DOMAIN pending_messages
           /\ pending_messages[ev.chat_id] =
                  [content |-> ev.content, timestamp |-> ev.current_time]

\* C5: a trigger that drains a pending share summarizes the content of the
\* entry it found, and the entry is gone from the pending cache from the
\* start of the summary on, through every outcome; no identity has a share
\* drained twice without a share stored in between.
C5_PendingConsumedOnce ==
    /\ (HandlerCall /\ ev.route = "drain")
           => /\ ev.chat_id \in DOMAIN ev.mid_pending
              /\ ev.content = ev.mid_pending[ev.chat_id].content
              /\ ev.chat_id \notin DOMAIN pending_messages
              /\ \A k \in DOMAIN ev.mid_pending :
                     k # ev.chat_id
                         => /\ k \in DOMAIN pending_messages
                            /\ pending_messages[k] = ev.mid_pending[k]
    /\ \A id \in DOMAIN drains : drains[id] <= 1

\* C5, witness: after a drain and with no share stored since, another trigger
\* without an inline URL found nothing to summarize
C5_Witness ==
    /\ HandlerCall /\ ev.route = "no_content" /\ ev.steps = <<>>
    /\ ev.chat_id \in DOMAIN drains
    /\ drains[ev.chat_id] = 1

\* C6: a trigger without an allowed inline URL, handled at time t, drains the
\* pending entry of its identity, created at t0, exactly when t - t0 is at
\* most pending_messages_timeout; an older entry is purged and not drained.
C6_PendingExpiry ==
    (HandlerCall /\ ev.route \in {"drain", "no_content"})
        => /\ ev.route = "drain"
                  <=> /\ ev.chat_id \in DOMAIN ev.pre_pending
                      /\ ev.current_time
                             - ev.pre_pending[ev.chat_id].timestamp
                             <= pending_messages_timeout
           /\ ev.route = "drain"
                  => ev.content = ev.pre_pending[ev.chat_id].content
           /\ ev.route = "no_content"
                  => /\ ev.steps = <<>>
                     /\ ev.chat_id \notin DOMAIN pending_messages

\* C6, witness: a trigger handled at t0 + timeout + 1 found the entry purged
C6_Witness ==
    /\ HandlerCall /\ ev.route = "no_content"
    /\ ev.chat_id \in DOMAIN ev.pre_pending
    /\ ev.current_time - ev.pre_pending[ev.chat_id].timestamp
           = pending_messages_timeout + 1

\* C7, as claimed: after two shares from the same identity where
\* auto-summarize does not apply, with no trigger in between, the pending
\* entry of the identity holds the content and timestamp of the second one.
C7_SecondShareKept ==
    (/\ HandlerCall /\ ev.route \in {"stored", "dropped"}
     /\ ev.chat_id \in DOMAIN shares
     /\ shares[ev.chat_id] = 2)
        => /\ ev.chat_id \in DOMAIN pending_messages
           /\ pending_messages[ev.chat_id] =
                  [content |-> ev.content, timestamp |-> ev.current_time]

\* C8: a summarize call writes the summary cache exactly when one of its
\* attempts succeeds in extraction and in completion.  The entry of its
\* identity then holds the unescaped target URL and the extracted text cut
\* to max_words, in place of any earlier entry; until then, and when the
\* call ends with an error-typed reply, the cache is as the purge left it.
\* Entries of other identities are as the purge left them throughout.
C8_SummaryCacheWrite ==
    Summarizes
        => /\ Count(ev.steps, "completion_ok") >= 1
                  <=> (Done /\ ev.reply = Reply("TEXT", "summary"))
           /\ (Done /\ ev.reply.type = "ERROR") => content_cache = ev.mid_cache
           /\ Count(ev.steps, "completion_ok") = 0
                  => content_cache = ev.mid_cache
           /\ Count(ev.steps, "completion_ok") >= 1
                  => /\ DOMAIN content_cache
                            = DOMAIN ev.mid_cache \cup {ev.chat_id}
                     /\ content_cache[ev.chat_id].url = html_unescape(ev.content)
                     /\ content_cache[ev.chat_id].content =
                            SubSeq(ev.response_text, 1,
                                   IF Len(ev.response_text) < max_words
                                   THEN Len(ev.response_text) ELSE max_words)
                     /\ content_cache[ev.chat_id].timestamp
                            \in ev.current_time..now
           /\ \A k \in DOMAIN ev.mid_cache :
                  k # ev.chat_id
                      => /\ k \in DOMAIN content_cache
                         /\ content_cache[k] = ev.mid_cache[k]

\* C8, witness: a summary replaced the entry of its identity, which held
\* another URL, an entity of the content was unescaped and the text was cut,
\* while another identity has an entry
C8_Witness ==
    /\ Summarizes /\ Done /\ ev.reply = Reply("TEXT", "summary")
    /\ ev.chat_id \in DOMAIN ev.mid_cache
    /\ ev.mid_cache[ev.chat_id].url # content_cache[ev.chat_id].url
    /\ content_cache[ev.chat_id].url # ev.content
    /\ Len(content_cache[ev.chat_id].content) < Len(ev.response_text)
    /\ DOMAIN content_cache # {ev.chat_id}

\* C9: _process_question, called at time t for an identity whose entry was
\* created at t0, goes on to the "thinking" reply and the completion call
\* when t - t0 is at most content_cache_timeout, and answers that the
\* summary expired, with no completion call, when t - t0 is larger or there
\* is no entry, purged or not.
C9_QuestionFreshness ==
    QuestionCall
        => IF /\ ev.chat_id \in DOMAIN ev.pre_cache
              /\ ev.current_time - ev.pre_cache[ev.chat_id].timestamp
                     <= content_cache_timeout
           THEN /\ Len(ev.steps) >= 2
                /\ ev.steps[1] = "send_thinking"
                /\ ev.steps[2] = "completion"
           ELSE /\ CompletionCalls = 0
                /\ ev.reply.text = "expired"

\* C9, witness: a question asked at exactly t0 + content_cache_timeout found
\* the entry fresh
C9_Witness ==
    /\ QuestionCall
    /\ ev.chat_id \in DOMAIN ev.pre_cache
    /\ ev.current_time - ev.pre_cache[ev.chat_id].timestamp
           = content_cache_timeout
    /\ ev.steps[1] = "send_thinking"

\* C10: _process_question, called for an identity whose entry is missing or
\* older than content_cache_timeout, returns at once with the plain-text
\* reply that the summary expired: no progress reply, no completion call, no
\* retry, and both caches as they were, the stale entry included.
C10_StaleQuestion ==
    (/\ QuestionCall
     /\ \/ ev.chat_id \notin DOMAIN ev.pre_cache
        \/ ev.current_time - ev.pre_cache[ev.chat_id].timestamp
               > content_cache_timeout)
        => /\ Done
           /\ ev.steps = <<"reply">>
           /\ ev.reply = Reply("TEXT", "expired")
           /\ ev.retry_count = 0
           /\ content_cache = ev.pre_cache
           /\ pending_messages = ev.pre_pending

\* C10, witness: a question found a stale entry, which is still in the cache
C10_Witness ==
    /\ QuestionCall /\ Done
    /\ ev.chat_id \in DOMAIN content_cache
    /\ ev.current_time - content_cache[ev.chat_id].timestamp
           > content_cache_timeout
    /\ ev.reply = Reply("TEXT", "expired")

\* C11: a summarize call started by an auto-summarized share or by a trigger
\* with an inline URL sends exactly one progress notice, as its first step,
\* before its first extraction call and before its reply, and none on a
\* retry; a call started by draining a pending share sends none at all,
\* retries included.
C11_ProgressNotice ==
    Summarizes
        => /\ ev.route \in {"auto", "inline"}
                  => /\ Count(ev.steps, "send_notice") = 1
                     /\ Len(ev.steps) >= 2
                     /\ ev.steps[1] = "send_notice"
                     /\ ev.steps[2] = "extract"
           /\ ev.route = "drain"
                  => /\ Count(ev.steps, "send_notice") = 0
                     /\ ev.steps[1] = "extract"

\* C11, witness: a drained share was retried three times and no notice was
\* sent, although the retries do not pass skip_notice on
C11_Witness ==
    /\ Summarizes /\ Done /\ ev.route = "drain"
    /\ ev.retry_count = MaxRetry /\ ~ev.skip_notice
    /\ Count(ev.steps, "extract_failed") >= MaxRetry
    /\ Count(ev.steps, "send_notice") = 0

\* the entries of a cache d that are at most timeout old at time t
Unexpired(d, t, timeout) ==
    [k \in {x \in DOMAIN d : t - d[x].timestamp <= timeout} |-> d[k]]

\* the event is a trigger without a second token
BareTrigger ==
    /\ HandlerCall /\ ev.ctype = "TEXT"
    /\ IsTrigger(EffectiveText(ev.text, ev.is_group))
    /\ Len(EffectiveText(ev.text, ev.is_group)) = 1

\* C12: a trigger with no second token, handled when the pending cache has
\* no unexpired entry of its identity, does nothing: the call is over with
\* no reply set, no progress reply, no remote call, and both caches are what
\* they were less their expired entries.
C12_BareTriggerNoOp ==
    (/\ BareTrigger
     /\ \/ ev.chat_id \notin DOMAIN ev.pre_pending
        \/ ev.current_time - ev.pre_pending[ev.chat_id].timestamp
               > pending_messages_timeout)
        => /\ Done
           /\ ev.steps = <<>>
           /\ ev.reply = NoReply
           /\ pending_messages =
                  Unexpired(ev.pre_pending, ev.current_time,
                            pending_messages_timeout)
           /\ content_cache =
                  Unexpired(ev.pre_cache, ev.current_time, content_cache_timeout)

\* C12, witness: a bare trigger of an identity that never had a share, while
\* another identity has a pending share and the summary cache has an entry
C12_Witness ==
    /\ BareTrigger /\ Done
    /\ ev.chat_id \notin DOMAIN ev.pre_pending
    /\ ev.reply = NoReply
    /\ pending_messages # EmptyDict
    /\ content_cache # EmptyDict

(* ------------------- identity resolution on its own -------------------- *)

\* the raw ids asked for
UserIds == {"u1", "u2"}
GroupIds == {"g1", "g2"}

\* lines 116-143: _get_user_nickname is called for a raw id and the
\* directory answers in one of the ways of ResolveOutcomes
GetUserNickname ==
    \E user_id \in UserIds, o \in ResolveOutcomes :
        LET r == _get_user_nickname(user_nickname_cache, user_id, o)
        IN /\ user_nickname_cache' = r.cache
           /\ ev' = [EvNone EXCEPT
                        !.op = "_get_user_nickname",
                        !.from_user_id = user_id, !.is_group = FALSE,
                        !.chat_id = r.ret,
                        !.route = IF user_id \in DOMAIN user_nickname_cache
                                  THEN "cached" ELSE o]
           /\ UNCHANGED <<now, config, pending_messages, content_cache,
                          group_name_cache, calls, shares, drains, pc>>

\* lines 145-182: _get_group_name is called for a raw id
GetGroupName ==
    \E group_id \in GroupIds, o \in ResolveOutcomes :
        LET r == _get_group_name(group_name_cache, group_id, o)
        IN /\ group_name_cache' = r.cache
           /\ ev' = [EvNone EXCEPT
                        !.op = "_get_group_name",
                        !.from_user_id = group_id, !.is_group = TRUE,
                        !.chat_id = r.ret,
                        !.route = IF group_id \in DOMAIN group_name_cache
                                  THEN "cached" ELSE o]
           /\ UNCHANGED <<now, config, pending_messages, content_cache,
                          user_nickname_cache, calls, shares, drains, pc>>

NextIdentity ==
    \/ GetUserNickname
    \/ GetGroupName

SpecIdentity == Init /\ [][NextIdentity]_vars

\* the directory answers that are resolution failures
ResolutionFailures ==
    {"raise", "non200", "ret_not_200", "empty_data", "empty_name"}

\* C13, as claimed: when the directory call raises, answers with a status
\* other than 200, with ret other than 200, with empty data or with an empty
\* name, _get_user_nickname and _get_group_name return the raw id they were
\* asked for, and never None.
C13_ResolutionFallsBack ==
    (/\ ev.op \in {"_get_user_nickname", "_get_group_name"}
     /\ ev.route \in ResolutionFailures)
        => /\ ev.chat_id = ev.from_user_id
           /\ ev.chat_id # None

\* C14: a SHARING event whose content fails the URL validator ends at once
\* with the plain-text invalid-URL reply, where auto-summarize applies and
\* where it does not: no progress reply, no extraction or completion call,
\* no retry, no pending entry stored and the summary cache as the purge left
\* it.
C14_InvalidShare ==
    (HandlerCall /\ ev.ctype = "SHARING" /\ ~_check_url(ev.content))
        => /\ Done
           /\ ev.steps = <<"reply">>
           /\ ev.reply = Reply("TEXT", "invalid_url")
           /\ ev.retry_count = 0
           /\ pending_messages = ev.mid_pending
           /\ content_cache = ev.mid_cache

\* C14, witness: a blacklisted URL shared where auto-summarize applies was
\* refused
C14_Witness ==
    /\ HandlerCall /\ ev.ctype = "SHARING" /\ Done
    /\ ev.should_auto_sum
    /\ ev.content = UBlack
    /\ ev.reply = Reply("TEXT", "invalid_url")

(* ------------------------ the policy on its own ------------------------ *)

\* the names the policy lists are made of
PolicyNames == {"A", "B"}

\* every configuration of the four lists and of auto_sum
PolicyConfigs ==
    {[DefaultConfig EXCEPT !.auto_sum = a,
                           !.black_group_list = bg, !.white_group_list = wg,
                           !.black_user_list = bu, !.white_user_list = wu] :
        a \in BOOLEAN, bg \in SUBSET PolicyNames, wg \in SUBSET PolicyNames,
        bu \in SUBSET PolicyNames, wu \in SUBSET PolicyNames}

\* lines 54-111: __init__ with any configuration of the lists
InitPolicy ==
    /\ now = 0
    /\ config \in PolicyConfigs
    /\ pending_messages = EmptyDict
    /\ content_cache = EmptyDict
    /\ user_nickname_cache = EmptyDict
    /\ group_name_cache = EmptyDict
    /\ calls = 0
    /\ shares = EmptyDict
    /\ drains = EmptyDict
    /\ pc = "idle"
    /\ ev = EvNone

\* lines 184-199: _should_auto_summarize is called
ShouldAutoSummarize ==
    \E chat_id \in Identities, is_group \in BOOLEAN :
        /\ ev' = [EvNone EXCEPT
                     !.op = "_should_auto_summarize",
                     !.chat_id = chat_id, !.is_group = is_group,
                     !.should_auto_sum =
                         _should_auto_summarize(chat_id, is_group)]
        /\ UNCHANGED <<now, config, pending_messages, content_cache,
                       user_nickname_cache, group_name_cache, calls, shares,
                       drains, pc>>

SpecPolicy == InitPolicy /\ [][ShouldAutoSummarize]_vars

\* the lists of the category of the call
PolicyBlack ==
    IF ev.is_group THEN config.black_group_list ELSE config.black_user_list
PolicyWhite ==
    IF ev.is_group THEN config.white_group_list ELSE config.white_user_list

\* C15: _should_auto_summarize(identity, is_group) is false when the
\* identity is on the blacklist of its category, on the whitelist or not;
\* otherwise true when the whitelist of its category is not empty and holds
\* the identity; otherwise the global auto_sum, also for an identity that a
\* non-empty whitelist does not hold.
C15_PolicyPrecedence ==
    ev.op = "_should_auto_summarize"
        => ev.should_auto_sum =
               (IF ev.chat_id \in PolicyBlack THEN FALSE
                ELSE IF PolicyWhite # {} /\ ev.chat_id \in PolicyWhite THEN TRUE
                ELSE config.auto_sum)

\* C15, witness: an identity outside a non-empty whitelist, and on no
\* blacklist, got the global default, which is true
C15_Witness ==
    /\ ev.op = "_should_auto_summarize"
    /\ ev.chat_id \notin PolicyBlack
    /\ PolicyWhite # {} /\ ev.chat_id \notin PolicyWhite
    /\ config.auto_sum
    /\ ev.should_auto_sum

(* ---------------------- the URL validator on its own ------------------- *)

\* the prefixes the URL lists are made of
PGood == <<"https:", "//good.example">>
PWeixin == <<"https:", "//support.weixin.qq.com">>

\* the lists black_url_list and white_url_list are drawn from
UrlLists == {<<>>, <<PGood>>, <<PWeixin>>, <<PWeixin, PGood>>, <<UGood>>}

\* every configuration of the two URL lists
UrlConfigs ==
    {[DefaultConfig EXCEPT !.black_url_list = b, !.white_url_list = w] :
        b \in UrlLists, w \in UrlLists}

\* the candidates: URLs of the model as they are and between whitespace, a
\* scheme without a host, a text without a scheme, the empty text
Candidates ==
    {UGood, UAmp, UBlack, UNoScheme, <<"https:">>, <<>>, <<" ">>,
     <<" ">> \o UGood, <<" ">> \o UBlack, UGood \o <<" ">>,
     <<" ">> \o UAmp \o <<" ">>}

\* lines 54-111: __init__ with any configuration of the URL lists
InitUrl ==
    /\ now = 0
    /\ config \in UrlConfigs
    /\ pending_messages = EmptyDict
    /\ content_cache = EmptyDict
    /\ user_nickname_cache = EmptyDict
    /\ group_name_cache = EmptyDict
    /\ calls = 0
    /\ shares = EmptyDict
    /\ drains = EmptyDict
    /\ pc = "idle"
    /\ ev = EvNone

\* lines 534-558: _check_url is called
CheckUrl ==
    \E target_url \in Candidates :
        /\ ev' = [EvNone EXCEPT
                     !.op = "_check_url",
                     !.content = target_url,
                     !.route = IF _check_url(target_url)
                               THEN "allowed" ELSE "refused"]
        /\ UNCHANGED <<now, config, pending_messages, content_cache,
                       user_nickname_cache, group_name_cache, calls, shares,
                       drains, pc>>

SpecUrl == InitUrl /\ [][CheckUrl]_vars

\* u has a scheme and a host, starts with no prefix of the blacklist, and
\* the whitelist is empty or u starts with one of its prefixes
Admissible(u) ==
    /\ UrlScheme(u) # "" /\ UrlNetloc(u) # ""
    /\ \A i \in 1..Len(config.black_url_list) :
           ~StartsWith(u, config.black_url_list[i])
    /\ \/ config.white_url_list = <<>>
       \/ \E i \in 1..Len(config.white_url_list) :
              StartsWith(u, config.white_url_list[i])

\* C16, as claimed: the validator returns true for u exactly when u has a
\* scheme and a host, u starts with no blacklisted prefix, and the whitelist
\* is empty or u starts with one of its prefixes.
C16_ValidatorOnRawUrl ==
    ev.op = "_check_url"
        => (ev.route = "allowed" <=> Admissible(ev.content))

\* C16, amended: the validator returns true for u exactly when u without its
\* leading and trailing whitespace has a scheme and a host, starts with no
\* blacklisted prefix, and the whitelist is empty or it starts with one of
\* its prefixes; a URL under a blacklisted and a whitelisted prefix is
\* refused.
C16_ValidatorOnStrippedUrl ==
    ev.op = "_check_url"
        => (ev.route = "allowed" <=> Admissible(str_strip(ev.content)))

\* C16, witness: a URL after whitespace was allowed by a whitelist prefix it
\* starts with only once the whitespace is removed
C16_Witness ==
    /\ ev.op = "_check_url"
    /\ ev.content # str_strip(ev.content)
    /\ config.white_url_list # <<>>
    /\ ~Admissible(ev.content)
    /\ ev.route = "allowed"

\* C17: when a TEXT or SHARING event is dispatched, after the purge and
\* before the event reads or writes a cache, the pending cache holds exactly
\* the entries it held that are at most pending_messages_timeout old, and
\* the summary cache exactly those at most content_cache_timeout old: no
\* older entry is left, and none within its timeout is removed or changed.
C17_LazyPurge ==
    (HandlerCall /\ ev.ctype \in {"TEXT", "SHARING"})
        => /\ ev.mid_pending =
                  Unexpired(ev.pre_pending, ev.current_time,
                            pending_messages_timeout)
           /\ ev.mid_cache =
                  Unexpired(ev.pre_cache, ev.current_time,
                            content_cache_timeout)
           /\ \A k \in DOMAIN ev.mid_pending :
                  ev.current_time - ev.mid_pending[k].timestamp
                      <= pending_messages_timeout
           /\ \A k \in DOMAIN ev.mid_cache :
                  ev.current_time - ev.mid_cache[k].timestamp
                      <= content_cache_timeout

\* C17, witness: the purge of an event removed a summary older than its
\* timeout and kept a pending share exactly as old as its timeout
C17_Witness ==
    /\ HandlerCall /\ ev.ctype \in {"TEXT", "SHARING"}
    /\ \E k \in DOMAIN ev.pre_cache : k \notin DOMAIN ev.mid_cache
    /\ \E k \in DOMAIN ev.mid_pending :
           ev.current_time - ev.mid_pending[k].timestamp
               = pending_messages_timeout

\* C18: a question whose completion calls all fail sends one "thinking"
\* reply, as its first step, and makes at most 4 completion calls, one after
\* the other, with no reply set while it runs.  When the entry of its
\* identity is still fresh as it ends, it has made exactly 4 completion
\* calls and ends with the error-typed reply; the summary cache is unchanged
\* throughout.
C18_QuestionRetryBound ==
    (/\ QuestionCall
     /\ Count(ev.steps, "completion") >= 1
     /\ Count(ev.steps, "completion_ok") = 0)
        => /\ CompletionCalls <= MaxRetry + 1
           /\ Count(ev.steps, "send_thinking") = 1
           /\ ev.steps[1] = "send_thinking"
           /\ content_cache = ev.pre_cache
           /\ ~Done => /\ pc = "qa_completion"
                       /\ ev.reply = NoReply
                       /\ CompletionCalls
                              = Count(ev.steps, "completion_failed") + 1
           /\ (Done /\ IsFresh(ev.pre_cache, ev.chat_id, now))
                  => /\ CompletionCalls = 4
                     /\ Count(ev.steps, "completion_failed") = 4
                     /\ ev.reply = Reply("ERROR", "question_error")
           /\ (Done /\ ev.reply.type = "ERROR")
                  => /\ CompletionCalls = 4
                     /\ ev.retry_count = 3

\* C18, witness: a question ended after four failed completion calls while
\* the entry of its identity was still fresh
C18_Witness ==
    /\ QuestionCall /\ Done
    /\ IsFresh(content_cache, ev.chat_id, now)
    /\ Count(ev.steps, "completion_failed") = 4
    /\ Count(ev.steps, "send_thinking") = 1
    /\ ev.reply.type = "ERROR"

\* the event is a trigger without an inline URL the validator allows
TriggerWithoutUrl ==
    /\ HandlerCall /\ ev.ctype = "TEXT"
    /\ IsTrigger(EffectiveText(ev.text, ev.is_group))
    /\ LET url == InlineUrl(EffectiveText(ev.text, ev.is_group))
       IN url = <<>> \/ ~_check_url(url)

\* the event is a trigger with an inline URL the validator allows
TriggerWithUrl ==
    /\ HandlerCall /\ ev.ctype = "TEXT"
    /\ IsTrigger(EffectiveText(ev.text, ev.is_group))
    /\ LET url == InlineUrl(EffectiveText(ev.text, ev.is_group))
       IN url # <<>> /\ _check_url(url)

\* the display names of the conversations, and their raw ids
DisplayNames == {DirName(c.from_user_id) : c \in Convs}
RawIds == {c.from_user_id : c \in Convs}

\* C19: the caches are keyed by the resolved identity alone.  No key is a raw
\* id; a trigger without an inline URL drains the pending share found under
\* its display name, from whichever raw id and kind of chat the trigger
\* comes; and a summary is written under the display name of its event, in
\* place of the entry that was there.
C19_KeyedByIdentity ==
    /\ DOMAIN pending_messages \subseteq DisplayNames
    /\ DOMAIN content_cache \subseteq DisplayNames
    /\ DOMAIN pending_messages \cap RawIds = {}
    /\ DOMAIN content_cache \cap RawIds = {}
    /\ HandlerCall /\ ev.ctype \in {"TEXT", "SHARING"}
           => ev.chat_id = DirName(ev.from_user_id)
    /\ (TriggerWithoutUrl /\ DirName(ev.from_user_id) \in DOMAIN ev.mid_pending)
           => /\ ev.route = "drain"
              /\ ev.content
                     = ev.mid_pending[DirName(ev.from_user_id)].content
              /\ DirName(ev.from_user_id) \notin DOMAIN pending_messages
    /\ (Summarizes /\ Count(ev.steps, "completion_ok") >= 1)
           => /\ DirName(ev.from_user_id) \in DOMAIN content_cache
              /\ content_cache[DirName(ev.from_user_id)].url
                     = html_unescape(ev.content)

\* C19, witness: a trigger from the direct chat u1 drained the share that the
\* group g1, of the same display name, had stored (a direct chat stores
\* none), and the summary took the place of an entry with another URL
C19_Witness ==
    /\ HandlerCall /\ ev.route = "drain" /\ Done
    /\ ev.from_user_id = "u1" /\ ~ev.is_group
    /\ DirName("g1") = DirName("u1")
    /\ ev.chat_id \in DOMAIN ev.mid_cache
    /\ ev.reply = Reply("TEXT", "summary")
    /\ content_cache[ev.chat_id].url # ev.mid_cache[ev.chat_id].url

\* C20: a trigger with an inline URL the validator allows summarizes that
\* URL and leaves the pending cache as the purge left it, through every
\* outcome of the summary: an unexpired entry of its identity keeps its
\* content and timestamp.  Such an entry is drained by a trigger without an
\* inline URL handled while it is unexpired.
C20_InlineLeavesPending ==
    /\ TriggerWithUrl
           => /\ ev.route = "inline"
              /\ ev.content = InlineUrl(EffectiveText(ev.text, ev.is_group))
              /\ pending_messages = ev.mid_pending
              /\ (/\ ev.chat_id \in DOMAIN ev.pre_pending
                  /\ ev.current_time - ev.pre_pending[ev.chat_id].timestamp
                         <= pending_messages_timeout)
                     => /\ ev.chat_id \in DOMAIN pending_messages
                        /\ pending_messages[ev.chat_id]
                               = ev.pre_pending[ev.chat_id]
    /\ (/\ TriggerWithoutUrl
        /\ ev.chat_id \in DOMAIN ev.pre_pending
        /\ ev.current_time - ev.pre_pending[ev.chat_id].timestamp
               <= pending_messages_timeout)
           => /\ ev.route = "drain"
              /\ ev.content = ev.pre_pending[ev.chat_id].content

\* C20, witness: an inline URL was summarized while a share of another URL
\* was pending for the same identity, and the share is still pending
C20_Witness ==
    /\ TriggerWithUrl /\ Done
    /\ ev.reply = Reply("TEXT", "summary")
    /\ ev.chat_id \in DOMAIN pending_messages
    /\ pending_messages[ev.chat_id].content # ev.content
    /\ pending_messages[ev.chat_id] = ev.pre_pending[ev.chat_id]

\* the event is a trigger whose second token fails the validator
TriggerWithBadUrl ==
    /\ HandlerCall /\ ev.ctype = "TEXT"
    /\ IsTrigger(EffectiveText(ev.text, ev.is_group))
    /\ LET url == InlineUrl(EffectiveText(ev.text, ev.is_group))
       IN url # <<>> /\ ~_check_url(url)

\* C21: a trigger whose second token fails the URL validator is handled as a
\* trigger without a second token.  With a pending entry of its identity
\* left by the purge, the entry is taken out of the cache and its content is
\* summarized without a progress notice; with none, the call is over with
\* nothing sent, requested, replied or written.  The token is never
\* summarized and no invalid-URL reply is set.
C21_BadInlineUrl ==
    TriggerWithBadUrl
        => /\ ev.reply # Reply("TEXT", "invalid_url")
           /\ ev.content # InlineUrl(EffectiveText(ev.text, ev.is_group))
           /\ IF ev.chat_id \in DOMAIN ev.mid_pending
              THEN /\ ev.route = "drain"
                   /\ ev.content = ev.mid_pending[ev.chat_id].content
                   /\ ev.chat_id \notin DOMAIN pending_messages
                   /\ Count(ev.steps, "send_notice") = 0
                   /\ ev.steps[1] = "extract"
              ELSE /\ ev.route = "no_content"
                   /\ Done
                   /\ ev.steps = <<>>
                   /\ ev.reply = NoReply
                   /\ pending_messages = ev.mid_pending
                   /\ content_cache = ev.mid_cache

\* C21, witness: a trigger with a second token that has no scheme drained the
\* pending share of its identity and summarized it
C21_Witness ==
    /\ TriggerWithBadUrl /\ Done
    /\ ev.chat_id \in DOMAIN ev.mid_pending
    /\ ev.route = "drain"
    /\ ev.reply = Reply("TEXT", "summary")

(* --------------------------- termination ------------------------------- *)

\* requests.get and requests.post are made with timeout=60 (lines 353, 374):
\* a request that was made returns or raises
FairSpec ==
    Spec /\ WF_vars(ExtractResponse) /\ WF_vars(CompletionResponse)

\* what holds of a summarize call at every step: at most 4 extraction calls
\* and one completion call; no reply while it runs; once it is over, one
\* reply, plain text when an attempt succeeded in both steps and error-typed
\* otherwise
SummaryReplyOnce ==
    Summarizes
        => /\ ExtractCalls <= MaxRetry + 1
           /\ CompletionCalls <= 1
           /\ ~Done => /\ pc \in {"extract", "completion"}
                       /\ ev.reply = NoReply
                       /\ Count(ev.steps, "reply") = 0
           /\ Done => /\ Count(ev.steps, "reply") = 1
                      /\ ev.steps[Len(ev.steps)] = "reply"
                      /\ ev.reply.type \in {"TEXT", "ERROR"}
                      /\ ev.reply.type = "TEXT"
                             <=> /\ Count(ev.steps, "extract_ok") >= 1
                                 /\ Count(ev.steps, "completion_ok") >= 1

\* C22: every summarize call ends, whatever the extraction and completion
\* services answer, after at most 4 extraction calls, with exactly one reply
\* set on the event: plain text when an attempt succeeded in both steps,
\* error-typed otherwise.
C22_SummaryTerminates ==
    /\ []SummaryReplyOnce
    /\ (Summarizes /\ ~Done) ~> (Summarizes /\ Done)

\* C22, witness: a summarize call ended with the plain-text reply after three
\* failed extractions and a fourth that succeeded
C22_Witness ==
    /\ Summarizes /\ Done
    /\ Count(ev.steps, "extract_failed") = MaxRetry
    /\ ExtractCalls = MaxRetry + 1
    /\ ev.reply = Reply("TEXT", "summary")

====
